---- MODULE Spec2Model ----
(***************************************************************************)
(* Model of src/shelly/ha_availability.js: a Shelly script that probes     *)
(* Home Assistant, applies an input mode to the relays according to the    *)
(* probe outcome and reschedules itself with exponential backoff.          *)
(*                                                                         *)
(* The script runs on a single-threaded event loop: every action below is  *)
(* one callback (a timer callback, a Shelly.call completion or an event    *)
(* handler) run to completion.  Wall-clock time is abstracted: a pending   *)
(* timer may fire at any moment, a pending call may complete at any        *)
(* moment.  The jitter of scheduleNext only changes the wait of the timer  *)
(* and is therefore not part of the state.                                 *)
(***************************************************************************)
EXTENDS Bags, FiniteSets, Integers, Sequences, TLC

\* ---------------------------------------------------------------- settings
CHECK_MS == 30000
UP_MODE == "detached"
DOWN_MODE == "follow"
MIN_MS == CHECK_MS
MAX_MS == 180000

\* null of a timer handle (falsy in "if (nextTimer)") and of lastApplied
NoTimer == 0
nullMode == "null"

\* ------------------------------------------------------------------ bounds
\* probe cycles alive at once (pending first probe, scheduled probe, chains)
MaxProbes == 2
\* channel RPCs in flight at once
MaxCalls == 2
\* saturation of the count of consecutive Unreachable outcomes
FailCap == 4
\* saturation of the count of connectivity events in one burst
MaxBurst == 2

\* in_mode values of a Shelly switch
InModes == {"detached", "follow", "flip"}

\* events delivered to the handler of Shelly.addEventHandler
Events == {"wifi_connected", "wifi_disconnected", "other"}

\* results of an HTTP.GET: error code ec (0 = none) and response res, which
\* is absent or carries a code that is a number, a string or undefined
ErrorCodes == {0, -1, -104}
StatusCodes == {-1, 0, 200, 302, 401, 499, 500, 503}
NoResponse == [present |-> FALSE, codeType |-> "undefined", code |-> 0]
Response(codeType, code) == [present |-> TRUE, codeType |-> codeType, code |-> code]
Responses ==
  {NoResponse}
  \cup {Response("number", c) : c \in StatusCodes}
  \cup {Response("string", 0), Response("undefined", 0)}

\* the results the probe loop is run with: one of each class
ProbeResults ==
  { <<0, Response("number", 200)>>, <<0, Response("number", 500)>>,
    <<-104, NoResponse>> }

VARIABLES
  RELAY_IDS,     \* line 31: the configured channels, never assigned
  lastApplied,   \* line 38
  wifiTimer,     \* line 39: handle of the debounce timer, or NoTimer
  nextTimer,     \* line 40: handle of the scheduler timer, or NoTimer
  backoffMs,     \* line 45
  startup,       \* the warm-up timer of line 168 is pending
  timers,        \* pending timers whose handle the script keeps: [h, kind]
  retry,         \* bag of pending retry timers of line 111: [attempt, gets]
  http,          \* bag of pending HTTP.GET calls: [attempt, gets]
  calls,         \* bag of pending channel RPCs: [method, id, arg]
  in_mode,       \* device: input mode of each channel
  output,        \* device: output state of each channel
  last,          \* history: the last callback that ran on the probe path
                 \* (a timer, an event, an HTTP.GET completion)
  issued,        \* history: the channel RPCs applyMode issued in it, in order
  fails,         \* history: consecutive Unreachable outcomes (saturating)
  burst          \* history: connectivity events since the last recheck

vars == <<RELAY_IDS, lastApplied, wifiTimer, nextTimer, backoffMs, startup,
          timers, retry, http, calls, in_mode, output, last, issued, fails, burst>>

prog == <<RELAY_IDS, lastApplied, wifiTimer, nextTimer, backoffMs>>
dev == <<in_mode, output>>

\* ----------------------------------------------------------------- helpers
Min(a, b) == IF a < b THEN a ELSE b

Call(method, id, arg) == [method |-> method, id |-> id, arg |-> arg]

One(x) == SetToBag({x})

RECURSIVE SeqToBag(_)
SeqToBag(s) == IF s = << >> THEN EmptyBag ELSE One(Head(s)) (+) SeqToBag(Tail(s))

\* the channel ids in the order RELAY_IDS.forEach visits them
RECURSIVE Ordered(_)
Ordered(S) ==
  IF S = {} THEN << >>
  ELSE LET m == CHOOSE x \in S : \A y \in S : x <= y
       IN <<m>> \o Ordered(S \ {m})

RECURSIVE Flatten(_)
Flatten(ss) == IF ss = << >> THEN << >> ELSE Head(ss) \o Flatten(Tail(ss))

\* Timer.set returns a handle that no pending timer and no kept handle has
NewHandle(used) ==
  CHOOSE h \in 1..(Cardinality(used) + 1) :
    h \notin used /\ \A k \in 1..(h - 1) : k \in used

\* Timer.clear(h): a no-op when h is not pending
TimerClear(ts, h) == {t \in ts : t.h # h}

\* Timer.set(..., cb) of a timer whose handle is kept
TimerSet(ts, kind, keep) ==
  LET h == NewHandle({t.h : t \in ts} \cup (keep \ {NoTimer}))
  IN [timers |-> ts \cup {[h |-> h, kind |-> kind]}, handle |-> h]

\* ------------------------------------------------------------- RPC helpers
getInMode(id, desired) == Call("Switch.GetConfig", id, desired)

setInMode(id, desired) == Call("Switch.SetConfig", id, desired)

getOutput(id) == Call("Switch.GetStatus", id, "")

setOutput(id, on) == Call("Switch.Set", id, IF on THEN "on" ELSE "off")

\* variant: the output is enforced whatever the mode
ensureOnIfDetached_any(id, desiredMode) == <<getOutput(id)>>

\* the calls ensureOnIfDetached issues synchronously
ensureOnIfDetached(id, desiredMode) ==
  IF desiredMode # "detached" THEN << >> ELSE <<getOutput(id)>>

\* ------------------------------------------------------------ reachability
\* line 100: res && typeof res.code === "number" ? res.code : null
CodeIsNumber(res) == res.present /\ res.codeType = "number"

\* variant: the boundary code 500 counted as an answer
Reachable_le500(ec, res) == ec = 0 /\ CodeIsNumber(res) /\ res.code <= 500

\* line 101
Reachable(ec, res) == ec = 0 /\ CodeIsNumber(res) /\ res.code < 500

\* line 109
MaxAttempts == 2

\* variant: one retry too many
RetryAllowed_lt3(attempt) == attempt < 3

RetryAllowed(attempt) == attempt < MaxAttempts

\* variant: a failed first attempt is reported and retried
checkHAOutcome_both(attempt, ec, res) ==
  IF Reachable(ec, res) THEN [cb |-> "true", retry |-> FALSE]
  ELSE IF RetryAllowed(attempt) THEN [cb |-> "false", retry |-> TRUE]
  ELSE [cb |-> "false", retry |-> FALSE]

\* lines 103-115: what the HTTP.GET callback does with the result
checkHAOutcome(attempt, ec, res) ==
  IF Reachable(ec, res) THEN [cb |-> "true", retry |-> FALSE]
  ELSE IF RetryAllowed(attempt) THEN [cb |-> "none", retry |-> TRUE]
  ELSE [cb |-> "false", retry |-> FALSE]

\* --------------------------------------------------------------- applyMode
Desired(haUp) == IF haUp THEN UP_MODE ELSE DOWN_MODE

\* variant: the cached mode is never trusted
NoChange_never(desired, applied) == FALSE

NoChange(desired, applied) == desired = applied

\* variant: forEach stops after the first channel
applyModeCalls_first(haUp, applied) ==
  LET desired == Desired(haUp)
      id == Head(Ordered(RELAY_IDS))
  IN IF NoChange(desired, applied)
     THEN ensureOnIfDetached(id, desired)
     ELSE <<getInMode(id, desired)>>

\* the calls applyMode issues synchronously, in order
applyModeCalls(haUp, applied) ==
  LET desired == Desired(haUp)
      ids == Ordered(RELAY_IDS)
  IN IF NoChange(desired, applied)
     THEN Flatten([i \in 1..Len(ids) |-> ensureOnIfDetached(ids[i], desired)])
     ELSE [i \in 1..Len(ids) |-> getInMode(ids[i], desired)]

\* variant: the cache is only updated when HA is up
applyModeApplied_upOnly(haUp, applied) == IF haUp THEN UP_MODE ELSE applied

\* variant: a repeated apply forgets the cached mode
applyModeApplied_forget(haUp, applied) ==
  IF NoChange(Desired(haUp), applied) THEN nullMode ELSE Desired(haUp)

\* lastApplied when applyMode returns (line 127 returns before line 145)
applyModeApplied(haUp, applied) ==
  IF NoChange(Desired(haUp), applied) THEN applied ELSE Desired(haUp)

\* callback of getInMode in applyMode, lines 131-142; curr is "null" on error
getInModeCallback(id, desired, curr) ==
  IF curr = "null" THEN << >>
  ELSE IF curr # desired THEN <<setInMode(id, desired)>>
  ELSE ensureOnIfDetached(id, desired)

\* callback of setInMode in applyMode, lines 135-137: runs on success and failure
setInModeCallback(id, desired, ok) == ensureOnIfDetached(id, desired)

\* variant: the output is switched on whatever was read
getOutputCallback_always(id, out) ==
  IF out = "null" THEN << >> ELSE <<setOutput(id, TRUE)>>

\* callback of getOutput in ensureOnIfDetached, lines 86-90
getOutputCallback(id, out) ==
  IF out = "null" THEN << >>
  ELSE IF out = "false" THEN <<setOutput(id, TRUE)>>
  ELSE << >>

\* ------------------------------------------------------------ scheduleNext
\* variant: linear instead of exponential growth
NextBackoff_linear(haUp, cur) ==
  IF haUp THEN MIN_MS ELSE Min(cur + MIN_MS, MAX_MS)

\* variant: growth without the cap
NextBackoff_nocap(haUp, cur) == IF haUp THEN MIN_MS ELSE cur * 2

\* variant: the delay starts over once it would pass the cap
NextBackoff_wrap(haUp, cur) ==
  IF haUp THEN MIN_MS ELSE IF cur * 2 > MAX_MS THEN MIN_MS ELSE cur * 2

NextBackoff(haUp, cur) == IF haUp THEN MIN_MS ELSE Min(cur * 2, MAX_MS)

\* variant: the pending scheduler timer is not cleared
scheduleNextTimers_noclear(ts, nt, wt) == TimerSet(ts, "next", {nt, wt})

\* variant: the pending scheduler timer is cleared but none is armed
scheduleNextTimers_noarm(ts, nt, wt) ==
  [timers |-> IF nt # NoTimer THEN TimerClear(ts, nt) ELSE ts, handle |-> NoTimer]

\* lines 154-157: clear the kept timer, arm a new one
scheduleNextTimers(ts, nt, wt) ==
  LET cleared == IF nt # NoTimer THEN TimerClear(ts, nt) ELSE ts
  IN TimerSet(cleared, "next", {wt})

\* -------------------------------------------------------------------- Init
\* the script as it starts with the channels ids configured
InitWith(ids) ==
  /\ RELAY_IDS = ids
  /\ lastApplied = nullMode
  /\ wifiTimer = NoTimer
  /\ nextTimer = NoTimer
  /\ backoffMs = MIN_MS
  /\ startup = TRUE
  /\ timers = {}
  /\ retry = EmptyBag
  /\ http = EmptyBag
  /\ calls = EmptyBag
  /\ in_mode \in [RELAY_IDS -> InModes]
  /\ output \in [RELAY_IDS -> BOOLEAN]
  /\ last = [op |-> "init"]
  /\ issued = << >>
  /\ fails = 0
  /\ burst = 0

\* line 31: RELAY_IDS = [0]
Init == InitWith({0})

\* line 31: "[0] or [0,1]"
InitTwo == InitWith({0, 1})

\* checkHA(cb, attempt): one more HTTP.GET in flight; gets counts the
\* HTTP.GET calls of the probe cycle so far
checkHA(attempt, gets) == http (+) One([attempt |-> attempt, gets |-> gets])

\* probe cycles alive: a pending first probe, a scheduled probe, the chains
Alive ==
  (IF startup THEN 1 ELSE 0)
  + Cardinality({t \in timers : t.kind = "next"})
  + BagCardinality(http) + BagCardinality(retry)

\* ----------------------------------------------------------------- actions
\* line 168: the warm-up timer fires
StartupFire ==
  /\ startup
  /\ startup' = FALSE
  /\ http' = checkHA(1, 1)
  /\ last' = [op |-> "timer"]
  /\ issued' = << >>
  /\ UNCHANGED <<prog, timers, retry, calls, dev, fails, burst>>

\* lines 155-157: the scheduler timer fires; nextTimer keeps the stale handle
NextTimerFire ==
  \E t \in timers :
    /\ t.kind = "next"
    /\ timers' = timers \ {t}
    /\ http' = checkHA(1, 1)
    /\ last' = [op |-> "timer"]
    /\ issued' = << >>
    /\ UNCHANGED <<prog, startup, retry, calls, dev, fails, burst>>

\* line 111: the retry timer fires
RetryFire ==
  \E r \in BagToSet(retry) :
    /\ retry' = retry (-) One(r)
    /\ http' = checkHA(r.attempt + 1, r.gets + 1)
    /\ last' = [op |-> "timer"]
    /\ issued' = << >>
    /\ UNCHANGED <<prog, startup, timers, calls, dev, fails, burst>>

\* line 172
IsWifi(ev) == ev = "wifi_connected" \/ ev = "wifi_disconnected"

\* variant: the pending debounce timer is not cleared
debounceTimers_noclear(ts, wt, nt) == TimerSet(ts, "wifi", {nt, wt})

\* lines 173-174: clear the kept debounce timer, arm a new one
debounceTimers(ts, wt, nt) ==
  LET cleared == IF wt # NoTimer THEN TimerClear(ts, wt) ELSE ts
  IN TimerSet(cleared, "wifi", {nt})

\* lines 171-180: an event reaches the handler (connectivity events come
\* only while fewer than MaxProbes probe cycles are alive)
EventHandler(ev) ==
  /\ IsWifi(ev) => Alive < MaxProbes
  /\ IF IsWifi(ev)
     THEN LET r == debounceTimers(timers, wifiTimer, nextTimer)
          IN /\ timers' = r.timers
             /\ wifiTimer' = r.handle
             /\ burst' = Min(burst + 1, MaxBurst)
     ELSE UNCHANGED <<timers, wifiTimer, burst>>
  /\ IF IsWifi(ev)
     THEN last' = [op |-> "event"] /\ issued' = << >>
     ELSE UNCHANGED <<last, issued>>
  /\ UNCHANGED <<RELAY_IDS, lastApplied, nextTimer, backoffMs, startup, retry,
                 http, calls, dev, fails>>

\* variant: the recheck leaves the scheduler timer pending
recheckTimers_keep(ts, nt) == ts

\* line 176: the recheck clears the scheduler timer
recheckTimers(ts, nt) == IF nt # NoTimer THEN TimerClear(ts, nt) ELSE ts

\* lines 174-178: the debounce timer fires; wifiTimer keeps the stale handle
DebounceFire ==
  \E t \in timers :
    /\ t.kind = "wifi"
    /\ backoffMs' = MIN_MS
    /\ timers' = recheckTimers(timers \ {t}, nextTimer)
    /\ nextTimer' = NoTimer
    /\ http' = checkHA(1, 1)
    /\ last' = [op |-> "debounce", events |-> burst]
    /\ issued' = << >>
    /\ fails' = 0
    /\ burst' = 0
    /\ UNCHANGED <<RELAY_IDS, lastApplied, wifiTimer, startup, retry, calls, dev>>

\* lines 162-165: applyModeAndSchedule(haUp)
applyModeAndSchedule(haUp) ==
  LET r == scheduleNextTimers(timers, nextTimer, wifiTimer)
  IN /\ issued' = applyModeCalls(haUp, lastApplied)
     /\ calls' = calls (+) SeqToBag(issued')
     /\ lastApplied' = applyModeApplied(haUp, lastApplied)
     /\ backoffMs' = NextBackoff(haUp, backoffMs)
     /\ timers' = r.timers
     /\ nextTimer' = r.handle
     /\ fails' = IF haUp THEN 0 ELSE Min(fails + 1, FailCap)

\* lines 99-116: an HTTP.GET completes with error code ec and response res
\* (an outcome is delivered only while the channel RPCs of applyMode fit in
\* MaxCalls pending calls)
HttpDone ==
  \E c \in BagToSet(http), r \in ProbeResults :
    LET o == checkHAOutcome(c.attempt, r[1], r[2])
    IN /\ http' = http (-) One(c)
       /\ last' = [op |-> "HTTP.GET", attempt |-> c.attempt, gets |-> c.gets,
                   reachable |-> Reachable(r[1], r[2]),
                   cb |-> o.cb, retry |-> o.retry,
                   same |-> o.cb # "none"
                            /\ Desired(o.cb = "true") = lastApplied,
                   armed |-> \E t \in timers : t.kind = "next"]
       /\ retry' = IF o.retry
                   THEN retry (+) One([attempt |-> c.attempt, gets |-> c.gets])
                   ELSE retry
       /\ IF o.cb = "none"
          THEN /\ issued' = << >>
               /\ UNCHANGED <<lastApplied, backoffMs, timers, nextTimer,
                              calls, fails>>
          ELSE /\ BagCardinality(calls) + Cardinality(RELAY_IDS) <= MaxCalls
               /\ applyModeAndSchedule(o.cb = "true")
       /\ UNCHANGED <<RELAY_IDS, wifiTimer, startup, dev, burst>>

\* a channel RPC completes: the device acts on it, then the callback runs
\* and its calls become pending
Pending(method) == {c \in BagToSet(calls) : c.method = method}

Replace(c, cs) == (calls (-) One(c)) (+) SeqToBag(cs)

\* lines 51-54: Switch.GetConfig completes, without (ok) or with an error
GetConfigDoneWith(c, ok) ==
  LET curr == IF ok THEN in_mode[c.id] ELSE "null"
  IN /\ calls' = Replace(c, getInModeCallback(c.id, c.arg, curr))
     /\ UNCHANGED <<prog, startup, timers, retry, http, dev, last, issued,
                    fails, burst>>

\* lines 61-65: Switch.SetConfig completes
SetConfigDoneWith(c, ok) ==
  /\ in_mode' = IF ok THEN [in_mode EXCEPT ![c.id] = c.arg] ELSE in_mode
  /\ calls' = Replace(c, setInModeCallback(c.id, c.arg, ok))
  /\ UNCHANGED <<prog, startup, timers, retry, http, output, last, issued,
                 fails, burst>>

\* lines 71-74: Switch.GetStatus completes
GetStatusDoneWith(c, ok) ==
  LET out == IF ~ok THEN "null" ELSE IF output[c.id] THEN "true" ELSE "false"
  IN /\ calls' = Replace(c, getOutputCallback(c.id, out))
     /\ UNCHANGED <<prog, startup, timers, retry, http, dev, last, issued,
                    fails, burst>>

\* lines 78-81: Switch.Set completes
SwitchSetDoneWith(c, ok) ==
  /\ output' = IF ok THEN [output EXCEPT ![c.id] = (c.arg = "on")] ELSE output
  /\ calls' = Replace(c, << >>)
  /\ UNCHANGED <<prog, startup, timers, retry, http, in_mode, last, issued,
                 fails, burst>>

GetConfigDone ==
  \E c \in Pending("Switch.GetConfig"), ok \in BOOLEAN : GetConfigDoneWith(c, ok)

SetConfigDone ==
  \E c \in Pending("Switch.SetConfig"), ok \in BOOLEAN : SetConfigDoneWith(c, ok)

GetStatusDone ==
  \E c \in Pending("Switch.GetStatus"), ok \in BOOLEAN : GetStatusDoneWith(c, ok)

SwitchSetDone ==
  \E c \in Pending("Switch.Set"), ok \in BOOLEAN : SwitchSetDoneWith(c, ok)

\* the environment: somebody switches an output by hand
ManualToggle ==
  \E id \in RELAY_IDS :
    /\ output' = [output EXCEPT ![id] = ~output[id]]
    /\ UNCHANGED <<prog, startup, timers, retry, http, calls, in_mode, last,
                   issued, fails, burst>>

Event == \E ev \in Events : EventHandler(ev)

Next ==
  \/ StartupFire
  \/ NextTimerFire
  \/ RetryFire
  \/ Event
  \/ DebounceFire
  \/ HttpDone
  \/ GetConfigDone
  \/ SetConfigDone
  \/ GetStatusDone
  \/ SwitchSetDone
  \/ ManualToggle

Spec == Init /\ [][Next]_vars

\* Timers fire and Shelly.call completes (HTTP.GET at the latest on its
\* timeout); connectivity events and manual switching are up to the world.
Fairness ==
  /\ WF_vars(StartupFire)
  /\ WF_vars(NextTimerFire)
  /\ WF_vars(RetryFire)
  /\ WF_vars(HttpDone)
  /\ WF_vars(GetConfigDone)
  /\ WF_vars(SetConfigDone)
  /\ WF_vars(GetStatusDone)
  /\ WF_vars(SwitchSetDone)

FairSpec == Spec /\ Fairness

\* the callbacks of the script alone: no connectivity event and no manual
\* switching happens
NextQuiet ==
  \/ StartupFire
  \/ NextTimerFire
  \/ RetryFire
  \/ HttpDone
  \/ GetConfigDone
  \/ SetConfigDone
  \/ GetStatusDone
  \/ SwitchSetDone

\* the script configured for both channels of a two-channel device
TwoChannelSpec == InitTwo /\ [][NextQuiet]_vars

\* the channel RPCs complete without error
GetConfigOk == \E c \in Pending("Switch.GetConfig") : GetConfigDoneWith(c, TRUE)

SetConfigOk == \E c \in Pending("Switch.SetConfig") : SetConfigDoneWith(c, TRUE)

GetStatusOk == \E c \in Pending("Switch.GetStatus") : GetStatusDoneWith(c, TRUE)

SwitchSetOk == \E c \in Pending("Switch.Set") : SwitchSetDoneWith(c, TRUE)

\* the event loop while no channel RPC fails
NextNoFail ==
  \/ StartupFire
  \/ NextTimerFire
  \/ RetryFire
  \/ Event
  \/ DebounceFire
  \/ HttpDone
  \/ GetConfigOk
  \/ SetConfigOk
  \/ GetStatusOk
  \/ SwitchSetOk
  \/ ManualToggle

\* the script on a device whose Switch calls never fail
NoFailSpec == Init /\ [][NextNoFail]_vars

\* ------------------------------------------- the classification on its own
\* One attempt's result is drawn from ErrorCodes x Responses and classified
\* as the HTTP.GET callback classifies it.
InitClassify ==
  /\ RELAY_IDS = {0}
  /\ lastApplied = nullMode
  /\ wifiTimer = NoTimer
  /\ nextTimer = NoTimer
  /\ backoffMs = MIN_MS
  /\ startup = TRUE
  /\ timers = {}
  /\ retry = EmptyBag
  /\ http = EmptyBag
  /\ calls = EmptyBag
  /\ in_mode = [id \in RELAY_IDS |-> DOWN_MODE]
  /\ output = [id \in RELAY_IDS |-> FALSE]
  /\ \E ec \in ErrorCodes, res \in Responses, attempt \in 1..MaxAttempts :
       last = [op |-> "result", ec |-> ec, res |-> res, attempt |-> attempt]
  /\ issued = << >>
  /\ fails = 0
  /\ burst = 0

Classify ==
  /\ last.op = "result"
  /\ last' = [op |-> "classified", ec |-> last.ec, res |-> last.res,
              attempt |-> last.attempt,
              reachable |-> Reachable(last.ec, last.res),
              outcome |-> checkHAOutcome(last.attempt, last.ec, last.res)]
  /\ UNCHANGED <<prog, startup, timers, retry, http, calls, dev, issued,
                 fails, burst>>

ClassifySpec == InitClassify /\ [][Classify]_vars

\* ------------------------------------------------------------------ claims
NextTimers == {t \in timers : t.kind = "next"}
WifiTimers == {t \in timers : t.kind = "wifi"}
ProbeDone == last.op = "HTTP.GET" /\ last.cb # "none"
ConfigCalls == {"Switch.GetConfig", "Switch.SetConfig"}
IssuedMethods == {issued[i].method : i \in 1..Len(issued)}

\* C1: once applyMode has returned for a probe outcome, lastApplied is UP_MODE
\* if and only if that outcome was Reachable, and DOWN_MODE otherwise.
ThmC1 ==
  ProbeDone =>
    /\ lastApplied = UP_MODE <=> last.cb = "true"
    /\ last.cb = "false" => lastApplied = DOWN_MODE

\* an Unreachable outcome after a Reachable one has been applied
WitC1 ==
  /\ ProbeDone /\ last.cb = "false" /\ ~last.same
  /\ last.armed /\ lastApplied = DOWN_MODE

\* C2: the stored delay is MIN_MS after a Reachable outcome (or a recheck) and
\* min(MIN_MS * 2^k, MAX_MS) after the k-th consecutive Unreachable outcome:
\* 30000, then 60000, 120000, 180000, 180000, ...
ThmC2 ==
  /\ backoffMs = Min(MIN_MS * 2^fails, MAX_MS)
  /\ fails = 0 => backoffMs = 30000
  /\ fails = 1 => backoffMs = 60000
  /\ fails = 2 => backoffMs = 120000
  /\ fails >= 3 => backoffMs = 180000
  /\ ProbeDone => (fails = 0 <=> last.cb = "true")
  /\ ProbeDone => lastApplied = Desired(last.cb = "true")

\* the third consecutive Unreachable outcome has reached the cap
WitC2 == ProbeDone /\ last.cb = "false" /\ fails = 3 /\ backoffMs = 180000

\* C3: a burst of connectivity events leaves exactly the debounce timer of
\* the last event pending; when it fires the recheck starts with backoffMs
\* reset to MIN_MS and no debounce timer is left to start a second one.
ThmC3 ==
  /\ Cardinality(WifiTimers) <= 1
  /\ burst > 0 <=> WifiTimers # {}
  /\ \A t \in WifiTimers : t.h = wifiTimer
  /\ last.op = "event" => Cardinality(WifiTimers) = 1
  /\ last.op = "debounce" =>
       /\ last.events >= 1
       /\ WifiTimers = {}
       /\ backoffMs = MIN_MS
       /\ BagIn([attempt |-> 1, gets |-> 1], http)

\* the recheck that follows a burst of two events
WitC3 == last.op = "debounce" /\ last.events = 2 /\ WifiTimers = {}

\* C4 as stated: a repeated applyMode with the same desired mode issues no
\* input-mode read or write and re-checks the output of every channel.
CexC4 ==
  (ProbeDone /\ last.same) =>
    /\ IssuedMethods \cap ConfigCalls = {}
    /\ \A id \in RELAY_IDS : \E i \in 1..Len(issued) : issued[i] = getOutput(id)

\* C4 amended: a repeated applyMode with the same desired mode issues no
\* input-mode read or write; it reads the output of every channel, once, when
\* the mode is UP_MODE and issues no call at all when the mode is DOWN_MODE.
ThmC4 ==
  (ProbeDone /\ last.same) =>
    /\ IssuedMethods \cap ConfigCalls = {}
    /\ last.cb = "true" =>
         /\ Len(issued) = Cardinality(RELAY_IDS)
         /\ \A id \in RELAY_IDS : \E i \in 1..Len(issued) : issued[i] = getOutput(id)
    /\ last.cb = "false" => issued = << >>

\* a repeated UP_MODE apply, the first apply's calls being done
WitC4 ==
  /\ ProbeDone /\ last.same /\ last.cb = "true"
  /\ calls = SeqToBag(issued) /\ issued # << >>

\* C5: an output read that returns false is answered by exactly one
\* setOutput(id, true), one that returns true or fails by none, and nothing
\* else issues a setOutput.
ThmC5 ==
  [][ /\ \A c \in Pending("Switch.GetStatus"), ok \in BOOLEAN :
           GetStatusDoneWith(c, ok) =>
             calls' = (calls (-) One(c))
                        (+) (IF ok /\ ~output[c.id]
                             THEN One(setOutput(c.id, TRUE)) ELSE EmptyBag)
      /\ \A id \in RELAY_IDS :
           LET n == CopiesIn(setOutput(id, TRUE), calls)
               n1 == CopiesIn(setOutput(id, TRUE), calls')
           IN n1 > n =>
                /\ n1 = n + 1
                /\ ~output[id]
                /\ BagIn(getOutput(id), calls)
                /\ GetStatusDoneWith(getOutput(id), TRUE)
      /\ \A c \in BagToSet(calls') : c.method = "Switch.Set" => c.arg = "on"
    ]_vars

\* the output read false and a setOutput(id, true) is on its way
WitC5 ==
  \E id \in RELAY_IDS :
    /\ CopiesIn(setOutput(id, TRUE), calls) = 1
    /\ ~output[id] /\ lastApplied = UP_MODE

\* C6: a probe cycle makes at most 2 HTTP.GET calls; a completion either
\* calls back or arms the retry, never both; Unreachable is reported after
\* exactly 2 calls, a first reachable attempt is reported after 1 call.
ThmC6 ==
  /\ \A c \in BagToSet(http) \cup BagToSet(retry) :
       c.gets = c.attempt /\ c.gets <= 2
  /\ \A c \in BagToSet(retry) : c.gets = 1
  /\ last.op = "HTTP.GET" =>
       /\ last.gets \in {1, 2}
       /\ last.retry <=> last.cb = "none"
       /\ last.cb = "false" => last.gets = 2 /\ ~last.reachable
       /\ last.retry => last.gets = 1 /\ ~last.reachable
       /\ last.reachable => last.cb = "true"
       /\ (last.reachable /\ last.attempt = 1) => last.gets = 1 /\ ~last.retry

\* two failed attempts reported as Unreachable
WitC6 == last.op = "HTTP.GET" /\ last.cb = "false" /\ last.gets = 2

\* C7 as stated: an attempt is Reachable iff there is no error code and the
\* response carries a numeric code c with 0 <= c < 500.
CexC7 ==
  last.op = "classified" =>
    (last.reachable <=>
       /\ last.ec = 0
       /\ last.res.present /\ last.res.codeType = "number"
       /\ 0 <= last.res.code /\ last.res.code < 500)

\* C7 amended: an attempt is Reachable iff there is no error code and the
\* response carries a numeric code c < 500 (no lower limit is tested); any
\* other result fails the attempt: a retry on attempt 1, Unreachable on 2.
ThmC7 ==
  last.op = "classified" =>
    /\ last.reachable <=>
         /\ last.ec = 0
         /\ last.res.present /\ last.res.codeType = "number"
         /\ last.res.code < 500
    /\ last.reachable <=> last.outcome.cb = "true"
    /\ ~last.reachable =>
         last.outcome = IF last.attempt = 1
                        THEN [cb |-> "none", retry |-> TRUE]
                        ELSE [cb |-> "false", retry |-> FALSE]

\* a negative numeric code without error code is classified Reachable
WitC7 ==
  /\ last.op = "classified" /\ last.ec = 0
  /\ last.res = Response("number", -1) /\ last.reachable

\* C8: backoffMs stays within [MIN_MS, MAX_MS].
ThmC8 == MIN_MS <= backoffMs /\ backoffMs <= MAX_MS

\* an Unreachable outcome at the cap leaves the delay at the cap
WitC8 == ProbeDone /\ last.cb = "false" /\ fails = 4 /\ backoffMs = MAX_MS

\* C9: at most one scheduler timer and one debounce timer are pending, and a
\* pending one is the one whose handle the script holds.
ThmC9 ==
  /\ Cardinality(NextTimers) <= 1
  /\ Cardinality(WifiTimers) <= 1
  /\ \A t \in NextTimers : t.h = nextTimer
  /\ \A t \in WifiTimers : t.h = wifiTimer
  /\ ProbeDone => Cardinality(NextTimers) = 1

\* scheduleNext ran while the timer armed by an overlapping cycle was pending
WitC9 ==
  /\ ProbeDone /\ last.armed
  /\ Cardinality(NextTimers) = 1 /\ http = EmptyBag /\ retry = EmptyBag

\* C10: something that leads to the next probe is always pending (the warm-up
\* timer, the scheduler timer, an HTTP.GET or a retry timer), and a probe is
\* issued again and again.
ProbeIssued == StartupFire \/ NextTimerFire \/ RetryFire \/ DebounceFire

ThmC10 == [](Alive >= 1) /\ []<><<ProbeIssued>>_vars

\* a recheck has cancelled the scheduler timer: its HTTP.GET alone is pending
WitC10 ==
  /\ last.op = "debounce" /\ ~startup /\ NextTimers = {}
  /\ retry = EmptyBag /\ BagCardinality(http) = 1 /\ lastApplied # nullMode

\* a probe outcome is delivered: applyModeAndSchedule runs in this step
ApplyStep ==
  /\ BagCardinality(http') < BagCardinality(http)
  /\ last'.op = "HTTP.GET" /\ last'.cb # "none"

IssuedCalls == {issued[i] : i \in 1..Len(issued)}

\* C11 as stated: when an input-mode read or write of the apply of the mode
\* in lastApplied fails and leaves the channel in another mode, the next
\* applyMode for the same desired mode reads the input mode of that channel
\* again.
CexC11 ==
  [][ \A c \in Pending("Switch.GetConfig") \cup Pending("Switch.SetConfig") :
        ( /\ c.arg = lastApplied /\ in_mode[c.id] # c.arg
          /\ GetConfigDoneWith(c, FALSE) \/ SetConfigDoneWith(c, FALSE) )
        => \E i \in 1..Len(applyModeCalls(c.arg = UP_MODE, lastApplied')) :
             applyModeCalls(c.arg = UP_MODE, lastApplied')[i] = getInMode(c.id, c.arg)
    ]_vars

OutputCalls == {"Switch.GetStatus", "Switch.Set"}

\* C12: no setOutput(id, false) is ever issued and the script never switches
\* an output off; an apply whose desired mode is not UP_MODE issues no output
\* read and no output write, neither at once nor from its callbacks.
ThmC12 ==
  [][ /\ \A c \in BagToSet(calls') : c.method = "Switch.Set" => c.arg = "on"
      /\ (ApplyStep /\ last'.cb = "false") => IssuedMethods' \cap OutputCalls = {}
      /\ \A c \in Pending("Switch.GetConfig") \cup Pending("Switch.SetConfig"),
             ok \in BOOLEAN :
           (c.arg # UP_MODE /\ (GetConfigDoneWith(c, ok) \/ SetConfigDoneWith(c, ok)))
             => \A d \in BagToSet(calls') :
                  d.method \in OutputCalls => CopiesIn(d, calls') <= CopiesIn(d, calls)
      /\ \A id \in RELAY_IDS : (output[id] /\ ~output'[id]) => ManualToggle
    ]_vars

\* a DOWN_MODE apply is writing the input mode of a channel whose output is off
WitC12 ==
  /\ ProbeDone /\ last.cb = "false" /\ lastApplied = DOWN_MODE
  /\ \E id \in RELAY_IDS : BagIn(setInMode(id, DOWN_MODE), calls) /\ ~output[id]

\* C13 as stated: when the input-mode read or the input-mode write of a
\* channel fails, the callback issues no further call: the failed call leaves
\* the pending calls and nothing joins them.
CexC13 ==
  [][ /\ \A c \in Pending("Switch.GetConfig") :
           GetConfigDoneWith(c, FALSE) => calls' = calls (-) One(c)
      /\ \A c \in Pending("Switch.SetConfig") :
           SetConfigDoneWith(c, FALSE) => calls' = calls (-) One(c)
    ]_vars

\* what a call asks for, whatever the channel
Asked(cs, id) == {[method |-> c.method, arg |-> c.arg] : c \in {d \in cs : d.id = id}}

\* the step is the completion of the channel RPC c, without or with an error
ChannelDoneWith(c, ok) ==
  \/ c.method = "Switch.GetConfig" /\ GetConfigDoneWith(c, ok)
  \/ c.method = "Switch.SetConfig" /\ SetConfigDoneWith(c, ok)
  \/ c.method = "Switch.GetStatus" /\ GetStatusDoneWith(c, ok)
  \/ c.method = "Switch.Set" /\ SwitchSetDoneWith(c, ok)

\* C14: the completion of a channel RPC, failed or not, leaves the pending
\* calls and the device state of every other channel as they are and does not
\* touch the scheduler; an apply issues the same calls for every channel,
\* whatever failed before, and has armed the next probe when it returns.
ThmC14 ==
  [][ /\ \A c \in BagToSet(calls), ok \in BOOLEAN :
           ChannelDoneWith(c, ok) =>
             /\ \A d \in BagToSet(calls) \cup BagToSet(calls') :
                  d.id # c.id => CopiesIn(d, calls') = CopiesIn(d, calls)
             /\ \A id \in RELAY_IDS \ {c.id} :
                  in_mode'[id] = in_mode[id] /\ output'[id] = output[id]
             /\ UNCHANGED <<lastApplied, timers, nextTimer, backoffMs>>
      /\ ApplyStep =>
           /\ Len(issued') \in {0, Cardinality(RELAY_IDS)}
           /\ \A i, j \in RELAY_IDS : Asked(IssuedCalls', i) = Asked(IssuedCalls', j)
           /\ ~last'.same => \A id \in RELAY_IDS :
                               getInMode(id, lastApplied') \in IssuedCalls'
           /\ Cardinality(NextTimers') = 1
           /\ \A t \in NextTimers' : t.h = nextTimer'
    ]_vars

\* the read of channel 0 has failed; the write of channel 1 goes on and the
\* next probe is armed
WitC14 ==
  /\ RELAY_IDS = {0, 1} /\ ProbeDone /\ ~last.same
  /\ in_mode[0] # lastApplied /\ \A c \in BagToSet(calls) : c.id # 0
  /\ BagIn(setInMode(1, lastApplied), calls)
  /\ Cardinality(NextTimers) = 1

\* an HTTP.GET completes in this step
HttpStep == BagCardinality(http') < BagCardinality(http)

\* C15: the HTTP.GET completion that ends a probe cycle runs one applyMode
\* for UP_MODE if the outcome is Reachable and for DOWN_MODE otherwise (at
\* most one call per channel, all for that mode) and one scheduleNext (the
\* delay is stepped once, one scheduler timer is pending afterwards); a
\* completion that arms the retry runs neither, and no other step does.
ThmC15 ==
  [][ /\ HttpStep =>
           /\ last'.op = "HTTP.GET"
           /\ BagCardinality(http') = BagCardinality(http) - 1
           /\ last'.cb = "none" =>
                /\ BagCardinality(retry') = BagCardinality(retry) + 1
                /\ issued' = << >>
                /\ UNCHANGED <<lastApplied, calls, timers, nextTimer, backoffMs>>
           /\ last'.cb # "none" =>
                /\ retry' = retry
                /\ last'.cb = IF last'.reachable THEN "true" ELSE "false"
                /\ lastApplied' = IF last'.reachable THEN UP_MODE ELSE DOWN_MODE
                /\ calls' = calls (+) SeqToBag(issued')
                /\ Len(issued') <= Cardinality(RELAY_IDS)
                /\ \A c \in IssuedCalls' : c.arg \in {lastApplied', ""}
                /\ lastApplied' # lastApplied =>
                     \A id \in RELAY_IDS : getInMode(id, lastApplied') \in IssuedCalls'
                /\ backoffMs' = IF last'.reachable THEN MIN_MS
                                ELSE Min(backoffMs * 2, MAX_MS)
                /\ Cardinality(NextTimers') = 1
                /\ \A t \in NextTimers' : t.h = nextTimer'
      /\ ~HttpStep =>
           /\ lastApplied' = lastApplied
           /\ NextTimers' \subseteq NextTimers
           /\ backoffMs' # backoffMs => DebounceFire
           /\ \A c \in Pending("Switch.GetConfig")' :
                CopiesIn(c, calls') <= CopiesIn(c, calls)
    ]_vars

\* a cycle that ended on its second attempt has applied UP_MODE and armed
\* the next probe
WitC15 ==
  /\ ProbeDone /\ last.cb = "true" /\ last.gets = 2 /\ ~last.same
  /\ lastApplied = UP_MODE /\ calls = SeqToBag(issued)
  /\ Cardinality(NextTimers) = 1

\* the debounce timer fires in this step
DebounceStep == Cardinality(WifiTimers') < Cardinality(WifiTimers)

\* C16: the step in which the debounce timer fires leaves no scheduler timer
\* pending and none held, sets backoffMs to MIN_MS and puts the first
\* HTTP.GET of a new probe cycle in flight; it changes neither lastApplied
\* nor the pending channel calls nor the device.
ThmC16 ==
  [][ DebounceStep =>
        /\ NextTimers' = {} /\ nextTimer' = NoTimer
        /\ timers' \subseteq timers
        /\ backoffMs' = MIN_MS
        /\ http' = http (+) One([attempt |-> 1, gets |-> 1])
        /\ retry' = retry
        /\ UNCHANGED <<lastApplied, calls, in_mode, output>>
    ]_vars

\* the recheck ran at a raised delay with the scheduler timer pending: the
\* timer is gone, the delay is back at MIN_MS, DOWN_MODE is still applied
WitC16 ==
  /\ last.op = "debounce" /\ lastApplied = DOWN_MODE /\ nextTimer = NoTimer
  /\ NextTimers = {} /\ backoffMs = MIN_MS /\ BagCardinality(http) = 1
  /\ retry = EmptyBag /\ calls # EmptyBag

\* C17: lastApplied starts as null and only changes in the step that runs
\* applyMode, where it becomes the desired mode while the calls applyMode
\* issued are still pending; no completion of a call, failed or not, changes
\* it, and once it is UP_MODE or DOWN_MODE it is never null again.
ThmC17 ==
  /\ lastApplied = nullMode
  /\ [](lastApplied \in {nullMode, UP_MODE, DOWN_MODE})
  /\ [][ /\ ApplyStep =>
              /\ lastApplied' = IF last'.cb = "true" THEN UP_MODE ELSE DOWN_MODE
              /\ \A c \in IssuedCalls' : BagIn(c, calls')
         /\ ~ApplyStep => lastApplied' = lastApplied
         /\ lastApplied # nullMode => lastApplied' # nullMode
       ]_vars

\* the apply has ended with a failed read or write, the channel is in
\* another mode: lastApplied still names the mode that was to be applied
WitC17 ==
  /\ ProbeDone /\ ~last.same /\ last.cb = "false" /\ ~last.armed
  /\ lastApplied = DOWN_MODE /\ calls = EmptyBag
  /\ \E id \in RELAY_IDS : in_mode[id] # DOWN_MODE

\* a Reachable outcome is delivered, or a connectivity event arrives
UpOrEvent ==
  \/ HttpStep /\ last'.op = "HTTP.GET" /\ last'.cb = "true"
  \/ /\ last'.op = "event"
     /\ last.op # "event" \/ burst' # burst \/ timers' # timers

\* C18: if from some point on no outcome is Reachable and no connectivity
\* event arrives, then from some point on backoffMs is MAX_MS, lastApplied is
\* DOWN_MODE and no input-mode read or write is pending or issued, while
\* probes are issued again and again.
ThmC18 ==
  <>[][~UpOrEvent]_vars =>
    /\ <>[](/\ backoffMs = MAX_MS
            /\ lastApplied = DOWN_MODE
            /\ Pending("Switch.GetConfig") = {}
            /\ Pending("Switch.SetConfig") = {})
    /\ []<><<ProbeIssued>>_vars

\* Unreachable outcomes have brought the delay to the cap; nothing is pending
\* but the next probe
WitC18 ==
  /\ ProbeDone /\ last.cb = "false" /\ last.same /\ fails = FailCap
  /\ backoffMs = MAX_MS /\ lastApplied = DOWN_MODE /\ calls = EmptyBag
  /\ WifiTimers = {}

\* C19 as stated: when no channel RPC has failed and none is pending, the
\* input mode of every channel is the mode in lastApplied, however the
\* callbacks of successive applies interleaved.
CexC19 ==
  (calls = EmptyBag /\ lastApplied # nullMode) =>
    \A id \in RELAY_IDS : in_mode[id] = lastApplied

\* checkHA chains in flight: an HTTP.GET or a retry timer is pending
Chains == BagCardinality(http) + BagCardinality(retry)

\* C20 as stated: at most one checkHA chain is in flight in every state.
CexC20 == Chains <= 1

\* C20 amended: one probe cycle is alive at the start (the warm-up timer);
\* the number of cycles alive (warm-up timer, scheduler timer, chains in
\* flight) never grows but in the step in which the debounce timer fires,
\* which adds one chain to those in flight; when the only chain in flight
\* delivers its outcome no chain is left, so the delay is not stepped again
\* before a probe starts.
ThmC20 ==
  /\ Alive = 1
  /\ [](Chains <= Alive)
  /\ [][ /\ Alive' > Alive =>
               /\ DebounceStep
               /\ Alive' = Alive + 1
               /\ Chains' = Chains + 1
               /\ NextTimers = {}
         /\ Chains' > Chains =>
               \/ DebounceStep
               \/ Chains' = Chains + 1 /\ Alive' = Alive /\ last'.op = "timer"
         /\ (ApplyStep /\ Chains = 1) => Chains' = 0 /\ backoffMs' <= 2 * backoffMs
       ]_vars

\* the recheck has started a chain while another one was in flight
WitC20 == last.op = "debounce" /\ Chains = 2 /\ Alive = 2

====
